---- MODULE Spec2Model ----
(***************************************************************************)
(* Model of src/app.py: the Streamlit script that checks two secrets,      *)
(* builds a LangChain agent with one tool (github_list_branches) and runs  *)
(* one agent turn per click of the "Get GitHub Info" button.  The tool     *)
(* calls McpServerClient.list_branches, which POSTs to the remote MCP      *)
(* server and maps the result to a string.                                 *)
(*                                                                         *)
(* Text is modelled as a sequence of fragments (strings); concatenation is *)
(* \o and "s contains t" is "t is a contiguous subsequence of s".  A JSON  *)
(* value is a record [t, s, kids]: t the Python type after json decoding,  *)
(* s the text of a scalar, kids the (key, value) pairs of a dict or the    *)
(* items of a list.                                                        *)
(***************************************************************************)
EXTENDS Naturals, Sequences, FiniteSets, TLC

VARIABLES
    secrets,     \* st.secrets: a function from the configured secret names to their values
    user_query,  \* the text_area's content (widget state, kept across reruns)
    pc,          \* where the script is: "start", "idle", "agent", "post"
    agent,       \* TRUE when this script run has built agent_executor
    io,          \* this script run's ordered effects: elements shown, requests posted, outcomes received
    scratchpad,  \* the running agent's intermediate steps: (tool input, observation)
    call         \* the tool call in progress: <<>> or <<[owner, repo]>>

vars == <<secrets, user_query, pc, agent, io, scratchpad, call>>

-----------------------------------------------------------------------------
(* Bounds *)

\* Most tool calls the agent makes in one turn.
MaxToolCalls == 2

-----------------------------------------------------------------------------
(* Text *)

Contains(text, part) ==
    \E i \in 0..Len(text) :
        /\ i + Len(part) <= Len(text)
        /\ \A j \in 1..Len(part) : text[i + j] = part[j]

RECURSIVE Flatten(_)
Flatten(texts) ==
    IF texts = <<>> THEN <<>> ELSE Head(texts) \o Flatten(Tail(texts))

\* A str as repr() writes it between the quotes: a line break as backslash-n.
Escaped(text) ==
    [i \in 1..Len(text) |-> IF text[i] = "\n" THEN "\\n" ELSE text[i]]

\* repr() of a str, as '%r' and the str() of a dict or a KeyError use it.
PyRepr(text) == <<"'">> \o Escaped(text) \o <<"'">>

-----------------------------------------------------------------------------
(* JSON values, as response.json() decodes them *)

JStr(s)      == [t |-> "str",  s |-> s,    kids |-> <<>>]
JNum(s)      == [t |-> "int",  s |-> s,    kids |-> <<>>]
JNull        == [t |-> "NoneType", s |-> <<>>, kids |-> <<>>]
JList(items) == [t |-> "list", s |-> <<>>,
                 kids |-> [i \in 1..Len(items) |-> [k |-> <<>>, v |-> items[i]]]]
JDict(pairs) == [t |-> "dict", s |-> <<>>, kids |-> pairs]
KV(key, val) == [k |-> key, v |-> val]

\* Python truth value of a decoded JSON value (the tests `result and ...`, `elif result`).
Truthy(j) ==
    CASE j.t = "NoneType" -> FALSE
      [] j.t = "int"      -> j.s # <<"0">>
      [] j.t = "str"      -> j.s # <<>>
      [] OTHER            -> j.kids # <<>>

HasKey(j, key) == \E i \in 1..Len(j.kids) : j.kids[i].k = key

ValueAt(j, key) ==
    j.kids[CHOOSE i \in 1..Len(j.kids) : j.kids[i].k = key].v

Ok(v)    == [raised |-> FALSE, err |-> <<>>, val |-> v]
Raise(e) == [raised |-> TRUE,  err |-> e,    val |-> <<>>]

\* `key in j`
PyIn(key, j) ==
    CASE j.t = "dict" -> Ok(HasKey(j, key))
      [] j.t = "list" -> Ok(\E i \in 1..Len(j.kids) : j.kids[i].v = JStr(key))
      [] j.t = "str"  -> Ok(Contains(j.s, key))
      [] OTHER        -> Raise(<<"argument of type '", j.t, "' is not iterable">>)

\* `j[key]` with a str key
PyGetItem(j, key) ==
    CASE j.t = "dict" -> IF HasKey(j, key) THEN Ok(ValueAt(j, key))
                         ELSE Raise(PyRepr(key))
      [] j.t = "list" -> Raise(<<"list indices must be integers or slices, not str">>)
      [] j.t = "str"  -> Raise(<<"string indices must be integers">>)
      [] OTHER        -> Raise(<<"'", j.t, "' object is not subscriptable">>)

\* `for b in j`
PyIter(j) ==
    CASE j.t = "list" -> Ok([i \in 1..Len(j.kids) |-> j.kids[i].v])
      [] j.t = "dict" -> Ok([i \in 1..Len(j.kids) |-> JStr(j.kids[i].k)])
      [] j.t = "str"  -> Ok([i \in 1..Len(j.s) |-> JStr(<<j.s[i]>>)])
      [] OTHER        -> Raise(<<"'", j.t, "' object is not iterable">>)

\* json.dumps(j, indent=2)
RECURSIVE JsonDumps(_)
JsonDumps(j) ==
    CASE j.t = "NoneType" -> <<"null">>
      [] j.t = "int"      -> j.s
      [] j.t = "str"      -> <<"\"">> \o j.s \o <<"\"">>
      [] j.t = "list"     ->
            <<"[">> \o
            Flatten([i \in 1..Len(j.kids) |->
                (IF i = 1 THEN <<>> ELSE <<",">>) \o JsonDumps(j.kids[i].v)])
            \o <<"]">>
      [] OTHER            ->
            <<"{">> \o
            Flatten([i \in 1..Len(j.kids) |->
                (IF i = 1 THEN <<>> ELSE <<",">>)
                \o <<"\"">> \o j.kids[i].k \o <<"\"", ": ">> \o JsonDumps(j.kids[i].v)])
            \o <<"}">>

-----------------------------------------------------------------------------
(* Inputs: what the environment can supply *)

GoogleKeys == {<<"AIza-K1">>}
\* A well-formed token, and one saved with a trailing line break.
GithubPats == {<<"ghp_T1">>, <<"ghp_T1", "\n">>}

SecretStores ==
    {f \in UNION {[names -> GoogleKeys \cup GithubPats] :
                      names \in SUBSET {"GOOGLE_API_KEY", "GITHUB_PAT"}} :
        /\ "GOOGLE_API_KEY" \in DOMAIN f => f["GOOGLE_API_KEY"] \in GoogleKeys
        /\ "GITHUB_PAT" \in DOMAIN f => f["GITHUB_PAT"] \in GithubPats}

Queries == {<<>>, <<"List the branches of octocat/hello">>}
Owners  == {<<"octocat">>}
Repos   == {<<"hello">>, <<"Spoon-Knife">>}

Named(n)  == JDict(<<KV(<<"name">>, JStr(<<n>>))>>)
Nameless  == JDict(<<KV(<<"id">>, JNum(<<"1">>))>>)

\* branches sequences: every element named (any order, repeats), or not.
NamedLists ==
    {<<>>, <<Named("main")>>, <<Named("main"), Named("dev")>>,
     <<Named("main"), Named("main")>>}

BranchLists ==
    NamedLists \cup {<<Nameless>>, <<Named("main"), Nameless>>}

WithOutput(o) == JDict(<<KV(<<"output">>, o)>>)

\* 2xx bodies that parse as JSON.
JsonBodies ==
    {WithOutput(JDict(<<KV(<<"branches">>, JList(l))>>)) : l \in BranchLists}
    \cup {WithOutput(JDict(<<KV(<<"branches">>, b)>>)) :
              b \in {JNull, JStr(<<"main">>)}}
    \cup {WithOutput(o) :
              o \in {JDict(<<>>), JNull, JNum(<<"5">>), JStr(<<"x-", "branches">>),
                     JList(<<JStr(<<"branches">>)>>)}}
    \cup {JDict(<<KV(<<"message">>, JStr(<<"ok">>))>>), JDict(<<>>), JNull}

ErrorStatuses == {404, 500}
ErrorTexts    == {<<"{\"message\": \"Not Found\"}">>}
\* A timeout, and a 2xx body that is not JSON.
FailureCauses == {<<"Read timed out">>, <<"Expecting value: line 1 column 1 (char 0)">>}
AgentFailures == {<<"LLM request failed">>}

Outcome(cls, status, text, body) ==
    [cls |-> cls, status |-> status, text |-> text, body |-> body]

-----------------------------------------------------------------------------
(* Effects of a script run, in order *)

\* A displayed element (st.title, st.error, st.info, ...).
El(kind, text) ==
    [kind |-> kind, text |-> text, url |-> <<>>, headers |-> <<>>, json |-> <<>>,
     cls |-> "", status |-> 0, body |-> JNull]

\* requests.post(url, headers=..., json=...)
PostEl(url, headers, json) ==
    [kind |-> "post", text |-> <<>>, url |-> url, headers |-> headers, json |-> json,
     cls |-> "", status |-> 0, body |-> JNull]

\* What came back for the last request posted.
RecvEl(o) ==
    [kind |-> "recv", text |-> o.text, url |-> <<>>, headers |-> <<>>, json |-> <<>>,
     cls |-> o.cls, status |-> o.status, body |-> o.body]

OutcomeOf(e) == Outcome(e.cls, e.status, e.text, e.body)

Shown(kinds) == SelectSeq(io, LAMBDA e : e.kind \in kinds)
Posts == Shown({"post"})
Recvs == Shown({"recv"})
DisplayKinds ==
    {"title", "markdown", "error", "warning", "info", "success", "subheader", "write",
     "header", "text_area", "button", "caption"}
Screen == Shown(DisplayKinds)

-----------------------------------------------------------------------------
(* McpServerClient *)

REMOTE_MCP_SERVER_URL == <<"https://api.githubcopilot.com/mcp/">>

McpHeaders(github_pat) ==
    << KV(<<"Authorization">>, <<"Bearer ">> \o github_pat),
       KV(<<"Content-Type">>, <<"application/json">>),
       KV(<<"Accept">>, <<"application/json">>) >>

\* Line 38: payload = {"owner": owner, "repo": repo}
Payload_Swapped(owner, repo) ==
    << KV(<<"owner">>, repo), KV(<<"repo">>, owner) >>

Payload(owner, repo) ==
    << KV(<<"owner">>, owner), KV(<<"repo">>, repo) >>

ToolUrl(base_url, tool_name) ==
    base_url \o <<"api/v1/tools/">> \o tool_name \o <<"/invoke">>

\* str() of the payload dict, as the f-string of the notice formats it.
DictStr(payload) ==
    <<"{">> \o
    Flatten([i \in 1..Len(payload) |->
        (IF i = 1 THEN <<>> ELSE <<", ">>)
        \o PyRepr(payload[i].k) \o <<": ">> \o PyRepr(payload[i].v)])
    \o <<"}">>

NoticeText(tool_name, payload) ==
    <<"Calling MCP tool: ">> \o tool_name \o <<" with payload: ">> \o DictStr(payload)

\* _call_mcp_tool up to and including requests.post(...): the effects, in order.
CallSend_PostFirst(base_url, headers, tool_name, payload) ==
    << PostEl(ToolUrl(base_url, tool_name), headers, payload),
       El("info", NoticeText(tool_name, payload)) >>

CallSend_PostTwice(base_url, headers, tool_name, payload) ==
    << El("info", NoticeText(tool_name, payload)),
       PostEl(ToolUrl(base_url, tool_name), headers, payload),
       PostEl(ToolUrl(base_url, tool_name), headers, payload) >>

CallSend(base_url, headers, tool_name, payload) ==
    << El("info", NoticeText(tool_name, payload)),
       PostEl(ToolUrl(base_url, tool_name), headers, payload) >>

\* A header value with a line break is refused before anything is sent
\* (ValueError: Invalid header value b'...').
ValidHeaders(headers) ==
    \A i \in 1..Len(headers) : \A j \in 1..Len(headers[i].v) : headers[i].v[j] # "\n"

InvalidHeaderCause(headers) ==
    LET i == CHOOSE i \in 1..Len(headers) :
                 \E j \in 1..Len(headers[i].v) : headers[i].v[j] = "\n"
    IN  <<"Invalid header value b">> \o PyRepr(headers[i].v)

\* What requests.post / raise_for_status / response.json can come back with.
Outcomes(headers) ==
    IF ValidHeaders(headers)
    THEN {Outcome("json", 200, <<>>, b) : b \in JsonBodies}
         \cup {Outcome("http", s, t, JNull) : s \in ErrorStatuses, t \in ErrorTexts}
         \cup {Outcome("fail", 0, c, JNull) : c \in FailureCauses}
    ELSE {Outcome("fail", 0, InvalidHeaderCause(headers), JNull)}

\* str(http_err), as response.raise_for_status() builds it.
HTTPErrorStr(status, url) ==
    << ToString(status),
       IF status < 500 THEN " Client Error: " ELSE " Server Error: ",
       IF status = 404 THEN "Not Found" ELSE "Internal Server Error",
       " for url: " >> \o url

\* _call_mcp_tool from the return of requests.post on: what it shows, and what
\* it returns or raises.
CallReceive(url, o) ==
    CASE o.cls = "json" ->
            [res |-> Ok(o.body), shown |-> <<>>]
      [] o.cls = "http" ->
            [res   |-> Raise(HTTPErrorStr(o.status, url)),
             shown |-> << El("error", <<"HTTP error occurred: ">>
                                       \o HTTPErrorStr(o.status, url)
                                       \o <<" - Response: ">> \o o.text) >>]
      [] OTHER ->
            [res   |-> Raise(o.text),
             shown |-> << El("error", <<"Other error occurred: ">> \o o.text) >>]

\* Line 42: [b["name"] for b in result["output"]["branches"]]
RECURSIVE NamesFrom(_)
NamesFrom(items) ==
    IF items = <<>> THEN Ok(<<>>)
    ELSE LET n == PyGetItem(Head(items), <<"name">>)
             rest == NamesFrom(Tail(items))
         IN  IF n.raised THEN n
             ELSE IF rest.raised THEN rest
             ELSE Ok(<<n.val>> \o rest.val)

NamesFrom_Reversed(items) ==
    LET r == NamesFrom(items)
    IN  IF r.raised THEN r
        ELSE Ok([i \in 1..Len(r.val) |-> r.val[Len(r.val) + 1 - i]])

BranchNames(items) == NamesFrom(items)

\* Line 41: result and isinstance(result, dict) and "output" in result
\*          and "branches" in result["output"]
HasBranches(result) ==
    IF ~Truthy(result) \/ result.t # "dict" \/ ~HasKey(result, <<"output">>)
    THEN Ok(FALSE)
    ELSE PyIn(<<"branches">>, ValueAt(result, <<"output">>))

\* Lines 41-47 of list_branches, given what _call_mcp_tool returned.
Interpret(result) ==
    LET c == HasBranches(result)
    IN  IF c.raised THEN c
        ELSE IF c.val
        THEN LET br == PyGetItem(ValueAt(result, <<"output">>), <<"branches">>)
                 it == IF br.raised THEN br ELSE PyIter(br.val)
                 ns == IF it.raised THEN it ELSE BranchNames(it.val)
             IN  IF ns.raised THEN ns
                 ELSE Ok(<<"Successfully listed branches: ">> \o JsonDumps(JList(ns.val)))
        ELSE IF Truthy(result)
        THEN Ok(<<"MCP server response for list_branches: ">> \o JsonDumps(result))
        ELSE Ok(<<"No branches found or unexpected response format.">>)

\* Lines 48-49: except Exception as e: return f"Failed to list branches: {e}"
FailedText_NoCause(e) == <<"Failed to list branches">>

FailedText(e) == <<"Failed to list branches: ">> \o e

\* list_branches from the return of requests.post on: the try block and its handler.
ListBranchesReturn_NoHandler(url, o) ==
    LET r == CallReceive(url, o).res
    IN  IF r.raised THEN r ELSE Interpret(r.val)

ListBranchesReturn(url, o) ==
    LET r   == CallReceive(url, o).res
        out == IF r.raised THEN r ELSE Interpret(r.val)
    IN  IF out.raised THEN Ok(FailedText(out.err)) ELSE out

-----------------------------------------------------------------------------
(* The script *)

TopElements ==
    << El("title", <<"GitHub MCP LangChain Assistant">>),
       El("markdown", <<"This application connects to the remote GitHub Official MCP Server">>),
       El("markdown", <<"Please ensure your GitHub Personal Access Token (PAT) is configured">>) >>

Footer ==
    << El("markdown", <<"---">>),
       El("caption", <<"Note: For production environments, consider OAuth 2.0">>) >>

Widgets(query) ==
    << El("header", <<"Ask your GitHub question:">>),
       El("text_area", query),
       El("button", <<"Get GitHub Info">>) >>

\* Lines 72-76: which branch of the secrets check the script takes.
SecretsCheck_GoogleOnly(sec) ==
    IF "GOOGLE_API_KEY" \notin DOMAIN sec THEN "no_google" ELSE "ok"

SecretsCheck(sec) ==
    IF "GOOGLE_API_KEY" \notin DOMAIN sec THEN "no_google"
    ELSE IF "GITHUB_PAT" \notin DOMAIN sec THEN "no_pat"
    ELSE "ok"

\* Lines 127-129: the turn handler's except clause.
TurnError(e) ==
    << El("error", <<"An error occurred while processing your request: ">> \o e),
       El("warning", <<"Please check your GitHub PAT scopes">>) >>

\* One run of the script from the top, up to the agent's invocation (line 121) or
\* to the end of the script.
Script(sec, query, clicked) ==
    LET check == SecretsCheck(sec) IN
    CASE check = "no_google" ->
            [io |-> TopElements
                    \o << El("error", <<"Google API key not found in Streamlit secrets.">>) >>
                    \o Footer,
             agent |-> FALSE, pc |-> "idle"]
      [] check = "no_pat" ->
            [io |-> TopElements
                    \o << El("error", <<"GitHub Personal Access Token (PAT) not found in Streamlit secrets.">>) >>
                    \o Footer,
             agent |-> FALSE, pc |-> "idle"]
      [] OTHER ->
            IF ~clicked
            THEN [io |-> TopElements \o Widgets(query) \o Footer,
                  agent |-> TRUE, pc |-> "idle"]
            ELSE IF query # <<>>
            THEN [io |-> TopElements \o Widgets(query),
                  agent |-> TRUE, pc |-> "agent"]
            ELSE [io |-> TopElements \o Widgets(query)
                         \o << El("warning", <<"Please enter a query to get GitHub information.">>) >>
                         \o Footer,
                  agent |-> TRUE, pc |-> "idle"]

Rerun(query, clicked) ==
    LET r == Script(secrets, query, clicked)
    IN  /\ io' = r.io
        /\ agent' = r.agent
        /\ pc' = r.pc
        /\ user_query' = query
        /\ scratchpad' = <<>>
        /\ call' = <<>>
        /\ UNCHANGED secrets

-----------------------------------------------------------------------------
(* Actions *)

Init ==
    /\ secrets \in SecretStores
    /\ user_query = <<>>
    /\ pc = "start"
    /\ agent = FALSE
    /\ io = <<>>
    /\ scratchpad = <<>>
    /\ call = <<>>

\* The page is opened: the script runs once, no button pressed.
Load ==
    /\ pc = "start"
    /\ Rerun(user_query, FALSE)

\* The user changes the text area (rendered at line 111): the script reruns.
EditQuery ==
    /\ pc = "idle"
    /\ agent
    /\ \E q \in Queries :
        /\ q # user_query
        /\ Rerun(q, FALSE)

\* The user presses "Get GitHub Info" (line 117): the script reruns with the
\* button set.
Click ==
    /\ pc = "idle"
    /\ agent
    /\ Rerun(user_query, TRUE)

\* The agent calls github_list_branches(owner, repo): lines 60-62, 37-38 and
\* _call_mcp_tool down to requests.post.
AgentCallsTool ==
    /\ pc = "agent"
    /\ Len(scratchpad) < MaxToolCalls
    /\ \E owner \in Owners, repo \in Repos :
        IF "GITHUB_PAT" \notin DOMAIN secrets
        THEN /\ io' = io \o TurnError(PyRepr(<<"GITHUB_PAT">>)) \o Footer
             /\ pc' = "idle"
             /\ UNCHANGED <<secrets, user_query, agent, scratchpad, call>>
        ELSE /\ io' = io \o CallSend(REMOTE_MCP_SERVER_URL,
                                     McpHeaders(secrets["GITHUB_PAT"]),
                                     <<"repositories.list_branches">>,
                                     Payload(owner, repo))
             /\ call' = << [owner |-> owner, repo |-> repo] >>
             /\ pc' = "post"
             /\ UNCHANGED <<secrets, user_query, agent, scratchpad>>

\* requests.post comes back (or raises); _call_mcp_tool and list_branches finish
\* and the tool's string goes to the agent as its observation.
ToolReturns(o) ==
    LET url == ToolUrl(REMOTE_MCP_SERVER_URL, <<"repositories.list_branches">>)
        ret == ListBranchesReturn(url, o)
        shown == <<RecvEl(o)>> \o CallReceive(url, o).shown
    IN  IF ret.raised
        THEN /\ io' = io \o shown \o TurnError(ret.err) \o Footer
             /\ pc' = "idle"
             /\ call' = <<>>
             /\ UNCHANGED <<secrets, user_query, agent, scratchpad>>
        ELSE /\ io' = io \o shown
             /\ scratchpad' = Append(scratchpad,
                    [owner |-> call[1].owner, repo |-> call[1].repo, obs |-> ret.val])
             /\ pc' = "agent"
             /\ call' = <<>>
             /\ UNCHANGED <<secrets, user_query, agent>>

PostOutcomes == Outcomes(McpHeaders(secrets["GITHUB_PAT"]))

ReceiveJson ==
    /\ pc = "post"
    /\ \E o \in PostOutcomes : o.cls = "json" /\ ToolReturns(o)

ReceiveHttpError ==
    /\ pc = "post"
    /\ \E o \in PostOutcomes : o.cls = "http" /\ ToolReturns(o)

PostFails ==
    /\ pc = "post"
    /\ \E o \in PostOutcomes : o.cls = "fail" /\ ToolReturns(o)

\* agent_executor.invoke returns (lines 122-125); the script ends.
AgentAnswers ==
    /\ pc = "agent"
    /\ \E answer \in {<<"Final answer">>}
                     \cup {scratchpad[i].obs : i \in {Len(scratchpad)} \ {0}} :
        io' = io \o << El("success", <<"Request processed!">>),
                       El("subheader", <<"Agent's Response:">>),
                       El("write", answer),
                       El("info", <<"Check the 'Logs' above for the agent's thought process.">>) >>
                 \o Footer
    /\ pc' = "idle"
    /\ UNCHANGED <<secrets, user_query, agent, scratchpad, call>>

\* agent_executor.invoke raises (the LLM call fails): lines 127-129; the script ends.
AgentRaises ==
    /\ pc = "agent"
    /\ \E e \in AgentFailures : io' = io \o TurnError(e) \o Footer
    /\ pc' = "idle"
    /\ UNCHANGED <<secrets, user_query, agent, scratchpad, call>>

Next ==
    \/ Load
    \/ EditQuery
    \/ Click
    \/ AgentCallsTool
    \/ ReceiveJson
    \/ ReceiveHttpError
    \/ PostFails
    \/ AgentAnswers
    \/ AgentRaises

Spec == Init /\ [][Next]_vars

-----------------------------------------------------------------------------
(* Properties *)

SecretMissing == ~({"GOOGLE_API_KEY", "GITHUB_PAT"} \subseteq DOMAIN secrets)

\* The arguments of this run's k-th tool call.
CallArgs(k) == IF k <= Len(scratchpad) THEN scratchpad[k] ELSE call[1]

\* How many outcomes io holds up to position i.
RecvCount(i) == Len(SelectSeq(SubSeq(io, 1, i), LAMBDA e : e.kind = "recv"))

IsTurnError(e) ==
    /\ e.kind = "error"
    /\ e.text # <<>>
    /\ Head(e.text) = "An error occurred while processing your request: "

\* C1: with the LLM key, the GitHub token or both missing, the agent is never
\* built, no turn can be started and no request is ever posted.
C1_MissingSecretHalts ==
    SecretMissing =>
        /\ ~agent
        /\ pc \in {"start", "idle"}
        /\ ~ENABLED Click
        /\ Posts = <<>>

C1_Witness ==
    /\ SecretMissing
    /\ pc = "idle"
    /\ \E i \in 1..Len(io) : io[i].kind = "error"

\* C2: every request posted by list_branches(owner, repo) goes to
\* base_url + "api/v1/tools/" + tool_name + "/invoke", carries the configured
\* token as its bearer Authorization value and has exactly {owner, repo} as body.
C2_PostIsAsCalled ==
    \A k \in 1..Len(Posts) :
        /\ Posts[k].url = <<"https://api.githubcopilot.com/mcp/", "api/v1/tools/",
                            "repositories.list_branches", "/invoke">>
        /\ "GITHUB_PAT" \in DOMAIN secrets
        /\ \E h \in 1..Len(Posts[k].headers) : Posts[k].headers[h].k = <<"Authorization">>
        /\ \A h \in 1..Len(Posts[k].headers) :
               Posts[k].headers[h].k = <<"Authorization">> =>
                   Posts[k].headers[h].v = <<"Bearer ">> \o secrets["GITHUB_PAT"]
        /\ Len(Posts[k].json) = 2
        /\ Posts[k].json[1] = [k |-> <<"owner">>, v |-> CallArgs(k).owner]
        /\ Posts[k].json[2] = [k |-> <<"repo">>, v |-> CallArgs(k).repo]

C2_Witness ==
    /\ Len(Posts) = 2
    /\ pc = "post"
    /\ call[1].repo # scratchpad[1].repo

\* A response holding an output.branches sequence of objects that each bear a name.
WellFormedBranches(b) ==
    /\ b.t = "dict"
    /\ HasKey(b, <<"output">>)
    /\ LET out == ValueAt(b, <<"output">>) IN
        /\ out.t = "dict"
        /\ HasKey(out, <<"branches">>)
        /\ LET br == ValueAt(out, <<"branches">>) IN
            /\ br.t = "list"
            /\ \A i \in 1..Len(br.kids) :
                   br.kids[i].v.t = "dict" /\ HasKey(br.kids[i].v, <<"name">>)

ExpectedNames(b) ==
    LET br == ValueAt(ValueAt(b, <<"output">>), <<"branches">>)
    IN  [i \in 1..Len(br.kids) |-> ValueAt(br.kids[i].v, <<"name">>)]

\* C3: for a successful response with an output.branches sequence of named
\* objects, list_branches returns the success message listing exactly those
\* names, in the response's order and multiplicity.
C3_NamesInOrder ==
    \A k \in 1..Len(Recvs) :
        (Recvs[k].cls = "json" /\ WellFormedBranches(Recvs[k].body)) =>
            /\ k <= Len(scratchpad)
            /\ scratchpad[k].obs =
                   <<"Successfully listed branches: ">>
                   \o JsonDumps(JList(ExpectedNames(Recvs[k].body)))

C3_Witness ==
    \E k \in 1..Len(scratchpad) :
        /\ Recvs[k].body =
               WithOutput(JDict(<<KV(<<"branches">>,
                                     JList(<<Named("main"), Named("dev")>>))>>))
        /\ scratchpad[k].obs =
               <<"Successfully listed branches: ", "[", "\"", "main", "\"", ",",
                 "\"", "dev", "\"", "]">>

\* C4: for every successful response without a well-formed output.branches,
\* list_branches returns the message echoing the raw JSON, never a failure
\* message.
C4_EchoesRawJson ==
    \A k \in 1..Len(Recvs) :
        (Recvs[k].cls = "json" /\ ~WellFormedBranches(Recvs[k].body)) =>
            /\ k <= Len(scratchpad)
            /\ scratchpad[k].obs =
                   <<"MCP server response for list_branches: ">>
                   \o JsonDumps(Recvs[k].body)

\* C5, as claimed: for every non-success HTTP status list_branches returns a
\* string containing the status and the response body.
C5_ReturnHasStatusAndBody ==
    \A k \in 1..Len(Recvs) :
        Recvs[k].cls = "http" =>
            /\ k <= Len(scratchpad)
            /\ Contains(scratchpad[k].obs, <<ToString(Recvs[k].status)>>)
            /\ Contains(scratchpad[k].obs, Recvs[k].text)

\* C5, amended: for every non-success HTTP status list_branches returns (and
\* raises nothing) a string "Failed to list branches: ..." containing the
\* status; the message containing both the status and the response body is
\* the error _call_mcp_tool displays.
C5_ReturnHasStatus ==
    \A i \in 1..Len(io) :
        (io[i].kind = "recv" /\ io[i].cls = "http") =>
            LET k == RecvCount(i) IN
            /\ k <= Len(scratchpad)
            /\ Head(scratchpad[k].obs) = "Failed to list branches: "
            /\ Contains(scratchpad[k].obs, <<ToString(io[i].status)>>)
            /\ i < Len(io)
            /\ io[i + 1].kind = "error"
            /\ Contains(io[i + 1].text, <<ToString(io[i].status)>>)
            /\ Contains(io[i + 1].text, io[i].text)

C5_Witness ==
    \E k \in 1..Len(scratchpad) :
        /\ Recvs[k].cls = "http"
        /\ Recvs[k].status = 404
        /\ pc = "agent"

\* C6: for every transport-level failure list_branches returns (and raises
\* nothing) a string that contains the cause and differs from the string
\* returned for a non-success HTTP status; so do the displayed errors.
C6_FailureReturned ==
    \A i \in 1..Len(io) :
        (io[i].kind = "recv" /\ io[i].cls = "fail") =>
            LET k == RecvCount(i) IN
            /\ k <= Len(scratchpad)
            /\ Contains(scratchpad[k].obs, io[i].text)
            /\ \A j \in 1..Len(Recvs) :
                   (Recvs[j].cls = "http" /\ j <= Len(scratchpad)) =>
                       scratchpad[j].obs # scratchpad[k].obs
            /\ \A s \in ErrorStatuses, p \in 1..Len(Posts) :
                   scratchpad[k].obs #
                       <<"Failed to list branches: ">> \o HTTPErrorStr(s, Posts[p].url)
            /\ i < Len(io)
            /\ io[i + 1].kind = "error"
            /\ Head(io[i + 1].text) = "Other error occurred: "
            /\ Contains(io[i + 1].text, io[i].text)

C6_Witness ==
    /\ Len(scratchpad) = 2
    /\ Recvs[1].cls = "fail"
    /\ Recvs[1].text = <<"Read timed out">>
    /\ Recvs[2].cls = "http"
    /\ pc = "agent"

\* C7: each invocation of list_branches posts exactly one request whatever the
\* outcome (no retry), nothing is cached (two invocations with the same payload
\* post twice) and the same payload and response give the same output.
C7_OnePostPerCall ==
    /\ Len(Posts) = Len(scratchpad) + Len(call)
    /\ Len(Recvs) = Len(scratchpad)
    /\ \A i, j \in 1..Len(scratchpad) :
           (/\ scratchpad[i].owner = scratchpad[j].owner
            /\ scratchpad[i].repo = scratchpad[j].repo
            /\ Recvs[i] = Recvs[j]) =>
               /\ Posts[i] = Posts[j]
               /\ scratchpad[i].obs = scratchpad[j].obs

C7_Witness ==
    /\ Len(scratchpad) = 2
    /\ scratchpad[1].repo = scratchpad[2].repo
    /\ Recvs[1] = Recvs[2]
    /\ Recvs[1].cls = "fail"
    /\ Len(Posts) = 2

\* C8: every request posted is preceded, in the same invocation, by the notice
\* showing the tool name and the payload of that request.
C8_NoticeBeforePost ==
    \A i \in 1..Len(io) :
        io[i].kind = "post" =>
            /\ i > 1
            /\ io[i - 1].kind = "info"
            /\ Head(io[i - 1].text) = "Calling MCP tool: "
            /\ Contains(io[i - 1].text, <<"repositories.list_branches">>)
            /\ \A f \in 1..Len(io[i].json) :
                   Contains(io[i - 1].text,
                            <<"'">> \o io[i].json[f].k \o <<"'", ": ", "'">>
                            \o io[i].json[f].v \o <<"'">>)

C8_Witness ==
    /\ Len(Posts) = 2
    /\ pc = "post"
    /\ Recvs[1].cls = "http"

\* The conversation as the page holds it: the assistant's answers and errors.
Messages == SelectSeq(io, LAMBDA e : e.kind = "write" \/ IsTurnError(e))

\* C9: an exception raised during a turn is shown as an error message after the
\* user's message and kept: the messages of earlier turns stay, unchanged, when
\* later turns run (append-only), and a next turn can be started.
C9_HistoryAppendOnly ==
    [][ /\ (\E m \in 1..Len(Messages) : IsTurnError(Messages[m])) =>
               \A i \in 1..Len(Messages) :
                   i <= Len(Messages') /\ Messages'[i] = Messages[i]
        /\ (pc = "agent" /\ pc' = "idle" /\ IsTurnError(io'[Len(io') - Len(Footer)])) =>
               /\ \E i \in 1..Len(io') :
                      io'[i].kind = "text_area" /\ io'[i].text = user_query
               /\ pc' = "idle" /\ agent'
      ]_vars

Leaks(text, secret) ==
    \/ Contains(text, secret)
    \/ Contains(text, Escaped(secret))

\* C10: nothing displayed or returned contains the LLM API key or the GitHub
\* token; the token is only in the Authorization header of posted requests.
C10_NoSecretInText ==
    \A n \in DOMAIN secrets :
        /\ \A i \in 1..Len(Screen) : ~Leaks(Screen[i].text, secrets[n])
        /\ \A k \in 1..Len(scratchpad) : ~Leaks(scratchpad[k].obs, secrets[n])
        /\ \A k \in 1..Len(Posts) :
               /\ ~Leaks(Posts[k].url, secrets[n])
               /\ \A f \in 1..Len(Posts[k].json) : ~Leaks(Posts[k].json[f].v, secrets[n])

====
